---- MODULE Spec2Model ----
(***************************************************************************)
(* A model of jsonrpcclient's Client (src/jsonrpcclient/client.py): the    *)
(* send pipeline (log, transport, log, validate, parse, attach, return),   *)
(* notify, request and dynamic method invocation through __getattr__.      *)
(*                                                                         *)
(* Text is a sequence of JSON tokens, so that json.dumps and parse are     *)
(* real conversions between Python values and text.                        *)
(***************************************************************************)
EXTENDS Integers, Sequences, FiniteSets, TLC

(* ------------------------------------------------------------------ *)
(* Python / JSON values.  Every value has the same record shape so    *)
(* that any two values can be compared.                               *)
(* ------------------------------------------------------------------ *)
JStr(s) == [t |-> "str", s |-> s, n |-> 0, items |-> <<>>]
JNum(n) == [t |-> "num", s |-> "", n |-> n, items |-> <<>>]
JNull == [t |-> "null", s |-> "", n |-> 0, items |-> <<>>]
\* a member of a dict (k is the key) or an element of a list (k is "")
Member(k, v) == [k |-> k, v |-> v]
JObj(members) == [t |-> "obj", s |-> "", n |-> 0, items |-> members]
JArr(elems) == [t |-> "arr", s |-> "", n |-> 0,
                items |-> [i \in 1..Len(elems) |-> Member("", elems[i])]]

(* ------------------------------------------------------------------ *)
(* JSON text: a sequence of tokens.                                   *)
(* ------------------------------------------------------------------ *)
Tok(t, s, n) == [t |-> t, s |-> s, n |-> n]
P(c) == Tok("p", c, 0)
StrTok(s) == Tok("str", s, 0)
NumTok(n) == Tok("num", "", n)
NullTok == Tok("null", "", 0)

RECURSIVE dumps(_)
RECURSIVE dumpsItems(_, _, _)
\* the members/elements from index i on, comma separated
dumpsItems(items, i, isObj) ==
    IF i > Len(items) THEN <<>>
    ELSE (IF i > 1 THEN <<P(",")>> ELSE <<>>)
         \o (IF isObj THEN <<StrTok(items[i].k), P(":")>> ELSE <<>>)
         \o dumps(items[i].v)
         \o dumpsItems(items, i + 1, isObj)
\* json.dumps(value)
dumps(v) ==
    CASE v.t = "str" -> <<StrTok(v.s)>>
      [] v.t = "num" -> <<NumTok(v.n)>>
      [] v.t = "null" -> <<NullTok>>
      [] v.t = "obj" -> <<P("{")>> \o dumpsItems(v.items, 1, TRUE) \o <<P("}")>>
      [] v.t = "arr" -> <<P("[")>> \o dumpsItems(v.items, 1, FALSE) \o <<P("]")>>

\* the result of decoding: ok, the value, and the position after it
Decoded(v, next) == [ok |-> TRUE, v |-> v, next |-> next]
Malformed == [ok |-> FALSE, v |-> JNull, next |-> 0]

RECURSIVE decodeValue(_, _)
RECURSIVE decodeItems(_, _, _, _)
\* members/elements up to the closing bracket; acc holds those read so far
decodeItems(toks, i, isObj, acc) ==
    LET close == IF isObj THEN P("}") ELSE P("]")
    IN  IF i > Len(toks) THEN Malformed
        ELSE IF toks[i] = close /\ acc = <<>> THEN
            Decoded(IF isObj THEN JObj(<<>>) ELSE JArr(<<>>), i + 1)
        ELSE
            LET keyOk == ~isObj \/ (i + 1 <= Len(toks) /\ toks[i].t = "str"
                                     /\ toks[i + 1] = P(":"))
                key == IF isObj /\ keyOk THEN toks[i].s ELSE ""
                vpos == IF isObj THEN i + 2 ELSE i
                val == IF keyOk THEN decodeValue(toks, vpos) ELSE Malformed
            IN  IF ~val.ok \/ val.next > Len(toks) THEN Malformed
                ELSE LET acc2 == Append(acc, Member(key, val.v))
                     IN  IF toks[val.next] = close THEN
                             Decoded([t |-> IF isObj THEN "obj" ELSE "arr",
                                      s |-> "", n |-> 0, items |-> acc2],
                                     val.next + 1)
                         ELSE IF toks[val.next] = P(",") THEN
                             decodeItems(toks, val.next + 1, isObj, acc2)
                         ELSE Malformed
decodeValue(toks, i) ==
    IF i > Len(toks) THEN Malformed
    ELSE CASE toks[i].t = "str" -> Decoded(JStr(toks[i].s), i + 1)
           [] toks[i].t = "num" -> Decoded(JNum(toks[i].n), i + 1)
           [] toks[i].t = "null" -> Decoded(JNull, i + 1)
           [] toks[i] = P("{") -> decodeItems(toks, i + 1, TRUE, <<>>)
           [] toks[i] = P("[") -> decodeItems(toks, i + 1, FALSE, <<>>)
           [] OTHER -> Malformed
\* json.loads(text): the whole text must be one value
loads(text) ==
    LET d == decodeValue(text, 1)
    IN  IF d.ok /\ d.next = Len(text) + 1 THEN d ELSE Malformed

(* ------------------------------------------------------------------ *)
(* Bounds and the inputs the callers and the transport draw from.     *)
(* ------------------------------------------------------------------ *)
\* ids drawn from the client's default generator in a run
MaxIds == 3
\* ids drawn from a generator the caller supplies in a run
MaxSupplied == 2
\* calls that may be in progress on the client at once
MaxInFlight == 2

Slots == 1..MaxInFlight
Methods == {"cube", "ping"}
\* members the Client class defines; any other name goes to __getattr__
DefinedMembers == {"send", "notify", "request"}
AttrNames == DefinedMembers \cup Methods
ArgChoices == {<<>>, <<JNum(3)>>}
\* keyword arguments a caller may pass, to send, notify, request or a dynamic method
KwargChoices == {<<>>, <<Member("timeout", JNum(5))>>}
\* an id the caller gives explicitly; 0 stands for "not given"
\* and the generator the caller passes as id_generator, if any
IdChoices == {[rid |-> 0, gen |-> "default"], [rid |-> 0, gen |-> "supplied"],
              [rid |-> 7, gen |-> "default"]}
\* what the caller hands to send: text, or a dict
SendChoices ==
    {[isStr |-> TRUE, v |-> JNull,
      text |-> dumps(JObj(<<Member("jsonrpc", JStr("2.0")),
                            Member("method", JStr("ping")), Member("id", JNum(1))>>))],
     [isStr |-> FALSE, text |-> <<>>,
      v |-> JObj(<<Member("jsonrpc", JStr("2.0")), Member("method", JStr("ping"))>>)],
     [isStr |-> FALSE, text |-> <<>>,
      v |-> JArr(<<JObj(<<Member("jsonrpc", JStr("2.0")),
                          Member("method", JStr("ping"))>>)>>)]}
\* the configuration: the defaults, and the opposite settings
ConfigChoices ==
    {[trim_log_values |-> FALSE, validate_against_schema |-> TRUE],
     [trim_log_values |-> TRUE, validate_against_schema |-> FALSE]}

Unset == [t |-> "unset", s |-> "", n |-> 0, items |-> <<>>]
\* what parse yields for an empty reply: no payload
NoPayload == [t |-> "none", s |-> "", n |-> 0, items |-> <<>>]

SuccessPayload == JObj(<<Member("jsonrpc", JStr("2.0")),
                         Member("result", JStr("meow")), Member("id", JNum(1))>>)
\* a success payload with result R and id I
Success(R, I) == JObj(<<Member("jsonrpc", JStr("2.0")),
                        Member("result", R), Member("id", I)>>)
\* reply texts a transport may hand back
EmptyText == <<>>
SuccessText == dumps(SuccessPayload)
CubeText == dumps(Success(JNum(27), JNum(2)))
TruncatedText == <<P("{"), StrTok("jsonrpc"), P(":")>>
NoVersionText == dumps(JObj(<<Member("result", JStr("meow")), Member("id", JNum(1))>>))
ExtraMemberText == dumps(JObj(SuccessPayload.items \o <<Member("extra", JNum(1))>>))
ReplyTexts == {EmptyText, SuccessText, CubeText, TruncatedText, NoVersionText,
               ExtraMemberText}
\* what a transport may answer with: a Response it makes for this reply ...
FreshReplies == [how : {"fresh"}, text : ReplyTexts]
\* ... or the one Response object it keeps, with the reply's text put into it
ReusedReplies == [how : {"shared"}, text : {EmptyText, SuccessText}]

(* ------------------------------------------------------------------ *)
(* Message builder (jsonrpcclient.request: Notification, Request).    *)
(* ------------------------------------------------------------------ *)
Built(v) == [err |-> "", v |-> v]
BuildError(e) == [err |-> e, v |-> JNull]

params(args, kwargs) ==
    IF args # <<>> THEN <<Member("params", JArr(args))>>
    ELSE IF kwargs # <<>> THEN <<Member("params", JObj(kwargs))>>
    ELSE <<>>

Notification(method, args, kwargs) ==
    IF args # <<>> /\ kwargs # <<>> THEN BuildError("ArgumentError")
    ELSE Built(JObj(<<Member("jsonrpc", JStr("2.0")), Member("method", JStr(method))>>
                    \o params(args, kwargs)))

\* id is the id the Request carries (given, or drawn from a generator)
Request(method, args, kwargs, id) ==
    LET n == Notification(method, args, kwargs)
    IN  IF n.err # "" THEN n
        ELSE Built(JObj(n.v.items \o <<Member("id", JNum(id))>>))

HasMember(v, k) == v.t = "obj" /\ \E i \in 1..Len(v.items) : v.items[i].k = k
MemberOf(v, k) == v.items[CHOOSE i \in 1..Len(v.items) : v.items[i].k = k].v

(* ------------------------------------------------------------------ *)
(* Parser / validator (jsonrpcclient.parse).                          *)
(* ------------------------------------------------------------------ *)
\* decoded tells whether the text went through the JSON decoder
Parsed(v, decoded) == [err |-> "", data |-> v, decoded |-> decoded]
ParseFailure(e) == [err |-> e, data |-> Unset, decoded |-> TRUE]

\* JSON-RPC 2.0 structure of one response object
StructureOk(v) ==
    /\ v.t = "obj"
    /\ HasMember(v, "jsonrpc") /\ MemberOf(v, "jsonrpc") = JStr("2.0")
    /\ HasMember(v, "result") # HasMember(v, "error")
    /\ HasMember(v, "id")
    /\ (MemberOf(v, "id") = JNull => HasMember(v, "error"))

\* the schema validator the parser consults: a response object has no other members
SchemaOk(v) ==
    \A i \in 1..Len(v.items) : v.items[i].k \in {"jsonrpc", "result", "error", "id"}

Elements(v) == IF v.t = "arr" THEN {v.items[i].v : i \in 1..Len(v.items)} ELSE {v}

parse(text, validate_against_schema) ==
    IF text = <<>> THEN Parsed(NoPayload, FALSE)
    ELSE LET d == loads(text)
         IN  IF ~d.ok \/ d.v.t \notin {"obj", "arr"} THEN ParseFailure("ParseError")
             ELSE IF \E e \in Elements(d.v) : ~StructureOk(e)
                  THEN ParseFailure("ValidationError")
             ELSE IF validate_against_schema /\ \E e \in Elements(d.v) : ~SchemaOk(e)
                  THEN ParseFailure("ValidationError")
             ELSE Parsed(d.v, TRUE)

(* ------------------------------------------------------------------ *)
(* State.                                                             *)
(* ------------------------------------------------------------------ *)
VARIABLES
    config,        \* the process-wide configuration the client was constructed from
    calls,         \* per slot: the call in progress there, or the last one finished
    id_generator,  \* how many ids the client's default generator has yielded
    supplied,      \* how many ids the caller's own generator has yielded
    shared,        \* a Response object the transport keeps and may hand back again
    ids_sent,      \* the ids of the requests handed to send_message that drew their
                   \* id from the default generator, in the order they were sent
    handler,       \* the attribute the caller has just looked up on the client
    twin           \* the same run with every dynamic invocation written as request(...)

vars == <<config, calls, id_generator, supplied, shared, ids_sent, handler, twin>>

\* a Response object: raw text, decoded data, and the transport's own handle
Response(text, data) == [text |-> text, data |-> data, raw_response |-> "handle"]
NoResponse == Response(<<>>, Unset)
\* what send was given: text (a str) or a dict/list
TextInput(text) == [isStr |-> TRUE, text |-> text, v |-> JNull]
ObjectInput(v) == [isStr |-> FALSE, text |-> <<>>, v |-> v]
NoHandler == [kind |-> "none", name |-> ""]

IdleCall ==
    [pc |-> "idle", entry |-> "", method |-> "", args |-> <<>>, kwargs |-> <<>>,
     rid |-> 0, gen |-> "", id |-> 0, request |-> TextInput(<<>>),
     options |-> <<>>, request_text |-> <<>>, sent |-> <<>>,
     request_log |-> <<>>, response_log |-> <<>>,
     resp |-> "none", own |-> NoResponse, replied |-> NoResponse,
     data0 |-> Unset, parsed |-> Unset,
     json_decoded |-> FALSE,
     err |-> "", trace |-> <<>>]

Finished == {"returned", "raised"}
Terminal == {"idle"} \cup Finished

\* the mutable state a call works on
World == [calls |-> calls, id_generator |-> id_generator, supplied |-> supplied,
          shared |-> shared, ids_sent |-> ids_sent]
Become(w) ==
    /\ calls' = w.calls
    /\ id_generator' = w.id_generator
    /\ supplied' = w.supplied
    /\ shared' = w.shared
    /\ ids_sent' = w.ids_sent

\* the Response object call c holds
ResponseOf(w, c) == IF w.calls[c].resp = "shared" THEN w.shared ELSE w.calls[c].own

\* as Raise, but a failed transport call is tried again
Raise_Retries(w, c, e) ==
    IF e = "TransportError" THEN [w EXCEPT !.calls[c].pc = "send_message"]
    ELSE [w EXCEPT !.calls[c].pc = "raised", !.calls[c].err = e]

\* as Raise, but a failed request gives its id back to the default generator
Raise_ReleasesId(w, c, e) ==
    LET k == w.calls[c]
        w1 == IF k.id # 0 /\ k.rid = 0 /\ k.gen = "default"
              THEN [w EXCEPT !.id_generator = @ - 1] ELSE w
    IN  [w1 EXCEPT !.calls[c].pc = "raised", !.calls[c].err = e]

\* an error leaves send at once and reaches the caller: send has no try/except
Raise(w, c, e) == [w EXCEPT !.calls[c].pc = "raised", !.calls[c].err = e]

(* ------------------------------------------------------------------ *)
(* Client.send, one operator per step.                                *)
(* ------------------------------------------------------------------ *)
\* as AfterStep, but the reply is parsed before it is validated
AfterStep_ParseBeforeValidate(step) ==
    CASE step = "log_request" -> "send_message"
      [] step = "send_message" -> "log_response"
      [] step = "log_response" -> "parse"
      [] step = "parse" -> "validate_response"
      [] step = "validate_response" -> "attach"
      [] step = "attach" -> "return"
      [] step = "return" -> "returned"

\* as AfterStep, but validation comes last, after the data is attached
AfterStep_ValidateLast(step) ==
    CASE step = "log_request" -> "send_message"
      [] step = "send_message" -> "log_response"
      [] step = "log_response" -> "parse"
      [] step = "parse" -> "attach"
      [] step = "attach" -> "validate_response"
      [] step = "validate_response" -> "return"
      [] step = "return" -> "returned"

\* the order of send's steps: the step that follows each
AfterStep(step) ==
    CASE step = "log_request" -> "send_message"
      [] step = "send_message" -> "log_response"
      [] step = "log_response" -> "validate_response"
      [] step = "validate_response" -> "parse"
      [] step = "parse" -> "attach"
      [] step = "attach" -> "return"
      [] step = "return" -> "returned"

Done(w, c, step) ==
    [w EXCEPT !.calls[c].pc = AfterStep(step),
              !.calls[c].trace = Append(@, step)]

\* as send, but the transport options are not passed on
send_DropsOptions(w, c, request, kwargs) ==
    [w EXCEPT !.calls[c].pc = "log_request",
              !.calls[c].request = request,
              !.calls[c].options = <<>>]

\* as send, but send takes a value from the client's generator for its own use
send_DrawsId(w, c, request, kwargs) ==
    [w EXCEPT !.id_generator = @ + 1,
              !.calls[c].pc = "log_request",
              !.calls[c].request = request,
              !.calls[c].options = kwargs]

\* send is entered: request is what the caller passed, kwargs the transport options
send(w, c, request, kwargs) ==
    [w EXCEPT !.calls[c].pc = "log_request",
              !.calls[c].request = request,
              !.calls[c].options = kwargs]

\* as request_text_of, but text is encoded too, as a JSON string
request_text_of_EncodesText(request) ==
    IF request.isStr THEN <<P("\"")>> \o request.text \o <<P("\"")>>
    ELSE dumps(request.v)

\* the request as text
request_text_of(request) ==
    IF request.isStr THEN request.text ELSE dumps(request.v)

log_request(w, c, trim_log_values) ==
    LET text == request_text_of(w.calls[c].request)
        w1 == [w EXCEPT !.calls[c].request_text = text,
                        !.calls[c].request_log =
                            Append(@, [text |-> text, trim |-> trim_log_values])]
    IN  Done(w1, c, "log_request")

\* send_message(request_text, **kwargs) is invoked
Invoked(w, c) ==
    LET k == w.calls[c]
        w1 == [w EXCEPT !.calls[c].sent =
                   Append(@, [text |-> k.request_text, options |-> k.options]),
                        !.calls[c].trace = Append(@, "send_message")]
    IN  IF k.entry \in {"request", "attr"} /\ k.rid = 0 /\ k.gen = "default"
        THEN [w1 EXCEPT !.ids_sent = Append(@, MemberOf(loads(k.request_text).v, "id").n)]
        ELSE w1

\* the transport answers with a Response of its own making (fresh) or with the
\* Response object it keeps (shared)
send_message_returns(w, c, how, text) ==
    LET w1 == Invoked(w, c)
        w2 == IF how = "shared"
              THEN [w1 EXCEPT !.shared.text = text,
                              !.calls[c].resp = "shared",
                              !.calls[c].data0 = w.shared.data]
              ELSE [w1 EXCEPT !.calls[c].resp = "own",
                              !.calls[c].own = Response(text, Unset),
                              !.calls[c].data0 = Unset]
        \* replied: the Response as the transport handed it over
        w3 == [w2 EXCEPT !.calls[c].replied = ResponseOf(w2, c)]
    IN  [w3 EXCEPT !.calls[c].pc = AfterStep("send_message")]

\* the transport raises
send_message_raises(w, c) == Raise(Invoked(w, c), c, "TransportError")

log_response(w, c, trim_log_values) ==
    LET w1 == [w EXCEPT !.calls[c].response_log =
                   Append(@, [text |-> ResponseOf(w, c).text, trim |-> trim_log_values])]
    IN  Done(w1, c, "log_response")

\* validate_response, as the subclass defines it: accepts (the default) or raises
validate_response(w, c, accepts) ==
    IF accepts THEN Done(w, c, "validate_response")
    ELSE Raise([w EXCEPT !.calls[c].trace = Append(@, "validate_response")],
               c, "ResponseRejected")

\* as parse_step, but the text parsed is the request's
parse_step_ParsesRequest(w, c, validate_against_schema) ==
    LET r == parse(w.calls[c].request_text, validate_against_schema)
        w1 == [w EXCEPT !.calls[c].trace = Append(@, "parse"),
                        !.calls[c].json_decoded = r.decoded]
    IN  IF r.err # "" THEN Raise(w1, c, r.err)
        ELSE [w1 EXCEPT !.calls[c].parsed = r.data, !.calls[c].pc = AfterStep("parse")]

\* response.data = parse(response.text, ...), up to the assignment
parse_step(w, c, validate_against_schema) ==
    LET r == parse(ResponseOf(w, c).text, validate_against_schema)
        w1 == [w EXCEPT !.calls[c].trace = Append(@, "parse"),
                        !.calls[c].json_decoded = r.decoded]
    IN  IF r.err # "" THEN Raise(w1, c, r.err)
        ELSE [w1 EXCEPT !.calls[c].parsed = r.data, !.calls[c].pc = AfterStep("parse")]

\* as attach, but the Response is kept on the client, where the calls in progress
\* share it: the payload goes to the Response of the earliest call holding one
attach_OnClient(w, c) ==
    LET held == {d \in DOMAIN w.calls : w.calls[d].resp = "own"}
        first == IF held = {} THEN c ELSE CHOOSE d \in held : \A e \in held : d <= e
        w1 == IF w.calls[c].resp = "shared"
              THEN [w EXCEPT !.shared.data = w.calls[c].parsed]
              ELSE [w EXCEPT !.calls[first].own.data = w.calls[c].parsed]
    IN  Done(w1, c, "attach")

\* as attach, but the Response's text is let go once it has been decoded
attach_DropsText(w, c) ==
    LET w1 == IF w.calls[c].resp = "shared"
              THEN [w EXCEPT !.shared.data = w.calls[c].parsed,
                             !.shared.text = EmptyText]
              ELSE [w EXCEPT !.calls[c].own.data = w.calls[c].parsed,
                             !.calls[c].own.text = EmptyText]
    IN  Done(w1, c, "attach")

\* as attach, but the payload is not written to the Response
attach_Skips(w, c) == Done(w, c, "attach")

\* response.data = <the decoded payload>
attach(w, c) ==
    LET w1 == IF w.calls[c].resp = "shared"
              THEN [w EXCEPT !.shared.data = w.calls[c].parsed]
              ELSE [w EXCEPT !.calls[c].own.data = w.calls[c].parsed]
    IN  Done(w1, c, "attach")

return_response(w, c) == Done(w, c, "return")

(* ------------------------------------------------------------------ *)
(* Client.notify, Client.request, Client.__getattr__.                 *)
(* ------------------------------------------------------------------ *)
\* a call enters slot c
Enter(w, c, entry, method, args, kwargs, rid, gen) ==
    [w EXCEPT !.calls[c] = [IdleCall EXCEPT !.pc = "entered", !.entry = entry,
                                            !.method = method, !.args = args,
                                            !.kwargs = kwargs, !.rid = rid,
                                            !.gen = gen]]

\* as notify, but the message built is a Request
notify_BuildsRequest(w, c, method_name, args, kwargs) ==
    LET n == Request(method_name, args, kwargs, w.id_generator + 1)
    IN  IF n.err # "" THEN Raise(w, c, n.err)
        ELSE send(w, c, ObjectInput(n.v), <<>>)

\* as notify, but the keyword params are dropped when positional ones are given too,
\* and the message is sent
notify_DropsKwargs(w, c, method_name, args, kwargs) ==
    LET n == Notification(method_name, args, IF args # <<>> THEN <<>> ELSE kwargs)
    IN  IF n.err # "" THEN Raise(w, c, n.err)
        ELSE send(w, c, ObjectInput(n.v), <<>>)

notify(w, c, method_name, args, kwargs) ==
    LET n == Notification(method_name, args, kwargs)
    IN  IF n.err # "" THEN Raise(w, c, n.err)
        ELSE send(w, c, ObjectInput(n.v), <<>>)

\* the next value of the generator the Request draws from
NextId(w, gen) ==
    IF gen = "supplied" THEN 100 + w.supplied + 1 ELSE w.id_generator + 1
Advance(w, gen) ==
    IF gen = "supplied" THEN [w EXCEPT !.supplied = @ + 1]
    ELSE [w EXCEPT !.id_generator = @ + 1]

\* as request, but the generator given with the call is not passed on to the builder
request_IgnoresSupplied(w, c, method_name, args, kwargs, rid, gen) ==
    LET id == IF rid # 0 THEN rid ELSE NextId(w, "default")
        r == Request(method_name, args, kwargs, id)
        w1 == IF rid # 0 THEN w ELSE Advance(w, "default")
    IN  IF r.err # "" THEN Raise(w, c, r.err)
        ELSE send([w1 EXCEPT !.calls[c].id = id], c, ObjectInput(r.v), <<>>)

\* as request, but the client works the id out itself, as one more than the number
\* of requests it has handed to send_message, instead of taking the generator's next
request_CountsSent(w, c, method_name, args, kwargs, rid, gen) ==
    LET id == IF rid # 0 THEN rid
              ELSE IF gen = "default" THEN Len(w.ids_sent) + 1 ELSE NextId(w, gen)
        r == Request(method_name, args, kwargs, id)
        w1 == IF rid # 0 THEN w ELSE Advance(w, gen)
    IN  IF r.err # "" THEN Raise(w, c, r.err)
        ELSE send([w1 EXCEPT !.calls[c].id = id], c, ObjectInput(r.v), <<>>)

request(w, c, method_name, args, kwargs, rid, gen) ==
    LET id == IF rid # 0 THEN rid ELSE NextId(w, gen)
        r == Request(method_name, args, kwargs, id)
        w1 == IF rid # 0 THEN w ELSE Advance(w, gen)
    IN  IF r.err # "" THEN Raise(w, c, r.err)
        ELSE send([w1 EXCEPT !.calls[c].id = id], c, ObjectInput(r.v), <<>>)

\* a member the class defines, bound to the client
Bound(name) == [kind |-> "member", name |-> name]

\* as getattr, but an id is drawn for the request when the attribute is looked up
getattr_Eager(w, name) ==
    [world |-> Advance(w, "default"), handle |-> [kind |-> "attr_handler", name |-> name]]

\* __getattr__(name): the callable it returns, and the state it leaves
getattr(w, name) == [world |-> w, handle |-> [kind |-> "attr_handler", name |-> name]]

\* client.<name>: the class's own member, or else what __getattr__ gives
lookup(w, name) ==
    IF name \in DefinedMembers THEN [world |-> w, handle |-> Bound(name)]
    ELSE getattr(w, name)

\* as attr_handler, but forwarding to notify
attr_handler_Notifies(w, c, name, args, kwargs, rid, gen) ==
    notify(w, c, name, args, kwargs)

\* the callable __getattr__ returned, invoked
attr_handler(w, c, name, args, kwargs, rid, gen) ==
    request(w, c, name, args, kwargs, rid, gen)

(* ------------------------------------------------------------------ *)
(* The state machine.                                                 *)
(* ------------------------------------------------------------------ *)
Init ==
    /\ config \in ConfigChoices
    /\ calls = [c \in Slots |-> IdleCall]
    /\ id_generator = 0
    /\ supplied = 0
    /\ shared = NoResponse
    /\ ids_sent = <<>>
    /\ handler = NoHandler
    /\ twin = [calls |-> [c \in Slots |-> IdleCall], id_generator |-> 0,
               supplied |-> 0, shared |-> NoResponse, ids_sent |-> <<>>]

\* c is the slot the next call goes to
FreeSlot(c) ==
    /\ calls[c].pc \in Terminal
    /\ \A d \in Slots : d < c => calls[d].pc \notin Terminal
\* the generator the request would draw from has ids left within the bound
CanDraw(rid, gen) ==
    \/ rid # 0
    \/ gen = "default" /\ id_generator < MaxIds
    \/ gen = "supplied" /\ supplied < MaxSupplied

\* the caller has the call's result (the Response, or the error) and moves on
Collect(c) ==
    /\ calls[c].pc \in Finished
    /\ calls' = [calls EXCEPT ![c] = IdleCall]
    /\ twin' = [twin EXCEPT !.calls[c] = IdleCall]
    /\ UNCHANGED <<config, id_generator, supplied, shared, ids_sent, handler>>

\* client.<name>
Access(name) ==
    /\ \A c \in Slots : calls[c].pc = "idle"
    /\ handler = NoHandler
    /\ Become(lookup(World, name).world)
    /\ twin' = lookup(twin, name).world
    /\ handler' = lookup(World, name).handle
    /\ UNCHANGED config

\* client.send(request, **options)
CallSend(c, req, options) ==
    /\ handler = Bound("send") /\ FreeSlot(c)
    /\ Become(send(Enter(World, c, "send", "", <<>>, options, 0, ""), c, req, options))
    /\ twin' = send(Enter(twin, c, "send", "", <<>>, options, 0, ""), c, req, options)
    /\ handler' = NoHandler
    /\ UNCHANGED config

\* client.notify(method_name, *args, **kwargs)
CallNotify(c, method_name, args, kwargs) ==
    /\ handler = Bound("notify") /\ FreeSlot(c)
    /\ Become(notify(Enter(World, c, "notify", method_name, args, kwargs, 0, ""),
                     c, method_name, args, kwargs))
    /\ twin' = notify(Enter(twin, c, "notify", method_name, args, kwargs, 0, ""),
                      c, method_name, args, kwargs)
    /\ handler' = NoHandler
    /\ UNCHANGED config

\* client.request(method_name, *args, **kwargs)
CallRequest(c, method_name, args, kwargs, rid, gen) ==
    /\ handler = Bound("request") /\ FreeSlot(c)
    /\ CanDraw(rid, gen)
    /\ Become(request(Enter(World, c, "request", method_name, args, kwargs, rid, gen),
                      c, method_name, args, kwargs, rid, gen))
    /\ twin' = request(Enter(twin, c, "request", method_name, args, kwargs, rid, gen),
                       c, method_name, args, kwargs, rid, gen)
    /\ handler' = NoHandler
    /\ UNCHANGED config

\* client.<name>(*args, **kwargs) for a name the class does not define
CallAttr(c, args, kwargs, rid, gen) ==
    /\ handler.kind = "attr_handler" /\ FreeSlot(c)
    /\ CanDraw(rid, gen)
    /\ Become(attr_handler(Enter(World, c, "attr", handler.name, args, kwargs, rid, gen),
                           c, handler.name, args, kwargs, rid, gen))
    /\ twin' = request(Enter(twin, c, "request", handler.name, args, kwargs, rid, gen),
                       c, handler.name, args, kwargs, rid, gen)
    /\ handler' = NoHandler
    /\ UNCHANGED config

LogRequest(c) ==
    /\ calls[c].pc = "log_request"
    /\ Become(log_request(World, c, config.trim_log_values))
    /\ twin' = log_request(twin, c, config.trim_log_values)
    /\ UNCHANGED <<config, handler>>

SendMessageReturns(c, how, text) ==
    /\ calls[c].pc = "send_message"
    /\ Become(send_message_returns(World, c, how, text))
    /\ twin' = send_message_returns(twin, c, how, text)
    /\ UNCHANGED <<config, handler>>

SendMessageRaises(c) ==
    /\ calls[c].pc = "send_message"
    /\ Become(send_message_raises(World, c))
    /\ twin' = send_message_raises(twin, c)
    /\ UNCHANGED <<config, handler>>

LogResponse(c) ==
    /\ calls[c].pc = "log_response"
    /\ Become(log_response(World, c, config.trim_log_values))
    /\ twin' = log_response(twin, c, config.trim_log_values)
    /\ UNCHANGED <<config, handler>>

ValidateResponse(c, accepts) ==
    /\ calls[c].pc = "validate_response"
    /\ Become(validate_response(World, c, accepts))
    /\ twin' = validate_response(twin, c, accepts)
    /\ UNCHANGED <<config, handler>>

Parse(c) ==
    /\ calls[c].pc = "parse"
    /\ Become(parse_step(World, c, config.validate_against_schema))
    /\ twin' = parse_step(twin, c, config.validate_against_schema)
    /\ UNCHANGED <<config, handler>>

Attach(c) ==
    /\ calls[c].pc = "attach"
    /\ Become(attach(World, c))
    /\ twin' = attach(twin, c)
    /\ UNCHANGED <<config, handler>>

Return(c) ==
    /\ calls[c].pc = "return"
    /\ Become(return_response(World, c))
    /\ twin' = return_response(twin, c)
    /\ UNCHANGED <<config, handler>>

\* a step of the client and its callers; replies is what the transport may answer with
Step(replies) ==
    \/ \E name \in AttrNames : Access(name)
    \/ \E c \in Slots :
        \/ \E req \in SendChoices, options \in KwargChoices :
               CallSend(c, req, options)
        \/ \E m \in Methods, args \in ArgChoices, kwargs \in KwargChoices :
               CallNotify(c, m, args, kwargs)
        \/ \E m \in Methods, args \in ArgChoices, kwargs \in KwargChoices,
              i \in IdChoices :
               CallRequest(c, m, args, kwargs, i.rid, i.gen)
        \/ \E args \in ArgChoices, kwargs \in KwargChoices, i \in IdChoices :
               CallAttr(c, args, kwargs, i.rid, i.gen)
        \/ LogRequest(c)
        \/ \E r \in replies : SendMessageReturns(c, r.how, r.text)
        \/ SendMessageRaises(c)
        \/ LogResponse(c)
        \/ \E accepts \in BOOLEAN : ValidateResponse(c, accepts)
        \/ Parse(c)
        \/ Attach(c)
        \/ Return(c)
        \/ Collect(c)

\* one call at a time, and a transport that makes a new Response for every reply
Next == Step(FreshReplies)

Spec == Init /\ [][Next]_vars

\* one call at a time, and a transport that may hand the same Response back again
NextReuse == Step(FreshReplies \cup ReusedReplies)

SpecReuse == Init /\ [][NextReuse]_vars

\* client.<name>, by a caller that does not wait for the calls in progress: the
\* call it makes starts while every call made before it is still in progress
AccessInFlight(name) ==
    /\ \E c \in Slots : FreeSlot(c) /\ calls[c].pc = "idle"
    /\ handler = NoHandler
    /\ Become(lookup(World, name).world)
    /\ twin' = lookup(twin, name).world
    /\ handler' = lookup(World, name).handle
    /\ UNCHANGED config

\* what the callers of the interleaved runs send, and what their transport answers
InterleavedSends == {req \in SendChoices : req.isStr}
InterleavedReplies == [how : {"fresh"}, text : {EmptyText, SuccessText}]

InitInterleaved == Init /\ ~config.trim_log_values

\* up to MaxInFlight send and request calls, each started while the ones before it
\* are still in progress, their steps interleaved in any order, over a transport
\* that is reentrant
NextInterleaved ==
    \/ \E name \in {"send", "request"} : AccessInFlight(name)
    \/ \E c \in Slots :
        \/ \E req \in InterleavedSends :
               calls[c].pc = "idle" /\ CallSend(c, req, <<>>)
        \/ \E m \in {"cube"} :
               calls[c].pc = "idle" /\ CallRequest(c, m, <<>>, <<>>, 0, "default")
        \/ LogRequest(c)
        \/ \E r \in InterleavedReplies : SendMessageReturns(c, r.how, r.text)
        \/ SendMessageRaises(c)
        \/ LogResponse(c)
        \/ \E accepts \in BOOLEAN : ValidateResponse(c, accepts)
        \/ Parse(c)
        \/ Attach(c)
        \/ Return(c)

SpecInterleaved == InitInterleaved /\ [][NextInterleaved]_vars

(* ------------------------------------------------------------------ *)
(* Properties.                                                        *)
(* ------------------------------------------------------------------ *)
SendOrder == <<"log_request", "send_message", "log_response", "validate_response",
               "parse", "attach", "return">>
IsPrefix(s, t) == Len(s) <= Len(t) /\ s = SubSeq(t, 1, Len(s))
InTrace(k, step) == \E i \in 1..Len(k.trace) : k.trace[i] = step
\* the id, if any, of the message the text holds
HasId(text) == HasMember(loads(text).v, "id")

\* C1: a send that returns has done, once each and in this order: log the outgoing
\* text, send_message with that text, log the Response, validate_response, parse its
\* text, attach the payload as data, return; and at no point is a step skipped or out
\* of order.
C1_SendStepsInOrder ==
    \A c \in Slots :
        LET k == calls[c]
            r == ResponseOf(World, c)
        IN  /\ IsPrefix(k.trace, SendOrder)
            /\ k.pc = "returned" =>
                /\ k.trace = SendOrder
                /\ k.request_text = request_text_of(k.request)
                /\ k.request_log = <<[text |-> k.request_text,
                                      trim |-> config.trim_log_values]>>
                /\ k.sent = <<[text |-> k.request_text, options |-> k.options]>>
                /\ k.response_log = <<[text |-> r.text, trim |-> config.trim_log_values]>>
                /\ k.parsed = parse(r.text, config.validate_against_schema).data
                /\ r.data = k.parsed

C1_Witness ==
    \E c \in Slots : calls[c].pc = "returned" /\ calls[c].entry = "send"

\* C2 as claimed: whatever keyword arguments the caller gave to send, request or
\* notify are the options send_message receives.
C2_OptionsReachTransport ==
    \A c \in Slots : \A i \in 1..Len(calls[c].sent) :
        calls[c].sent[i].options = calls[c].kwargs

\* C2 amended: the keyword arguments given to send are the options send_message
\* receives; request, notify and dynamic methods pass send_message no options, their
\* keyword arguments are the params of the message sent.
C2_OnlySendPassesOptions ==
    \A c \in Slots : \A i \in 1..Len(calls[c].sent) :
        LET k == calls[c]
            m == k.sent[i]
        IN  /\ k.entry = "send" => m.options = k.kwargs
            /\ k.entry \in {"notify", "request", "attr"} =>
                /\ m.options = <<>>
                /\ k.kwargs # <<>> =>
                    /\ HasMember(loads(m.text).v, "params")
                    /\ MemberOf(loads(m.text).v, "params") = JObj(k.kwargs)

C2_Witness ==
    \E c \in Slots :
        /\ calls[c].entry = "request" /\ calls[c].kwargs # <<>>
        /\ calls[c].sent # <<>>

\* C3: send_message is invoked at most once in a call, and an error raised by
\* send_message, validate_response or parse ends the call at that step with that
\* error, no later step having run.
C3_ErrorsEndTheCall ==
    \A c \in Slots :
        LET k == calls[c]
            r == ResponseOf(World, c)
        IN  /\ Len(k.sent) <= 1
            /\ (k.err # "") = (k.pc = "raised")
            /\ k.err = "TransportError" =>
                /\ k.trace = SubSeq(SendOrder, 1, 2)
                /\ k.resp = "none" /\ k.response_log = <<>> /\ k.parsed = Unset
            /\ k.err = "ResponseRejected" =>
                /\ k.trace = SubSeq(SendOrder, 1, 4)
                /\ k.parsed = Unset /\ r.data = k.data0
            /\ k.err \in {"ParseError", "ValidationError"} /\ k.trace # <<>> =>
                /\ k.trace = SubSeq(SendOrder, 1, 5)
                /\ k.err = parse(r.text, config.validate_against_schema).err
                /\ k.parsed = Unset /\ r.data = k.data0

C3_Witness ==
    \E c \in Slots : calls[c].pc = "raised" /\ calls[c].err = "ValidationError"

\* C4: when validate_response raises, parse is not invoked in that call and the
\* Response's data stays as the transport returned it: unset, for a Response the
\* transport made for this reply.
C4_RejectedBeforeParsing ==
    \A c \in Slots :
        LET k == calls[c]
            r == ResponseOf(World, c)
        IN  k.err = "ResponseRejected" =>
                /\ ~InTrace(k, "parse") /\ ~InTrace(k, "attach")
                /\ k.parsed = Unset
                /\ r.data = k.data0
                /\ k.resp = "own" => r.data = Unset

C4_Witness ==
    \E c \in Slots :
        /\ calls[c].err = "ResponseRejected" /\ calls[c].pc = "raised"
        /\ calls[c].resp = "own"

\* C5: the message notify hands to send_message has no id member; the message
\* request (or a dynamic method) hands to send_message has one.
C5_IdOnlyInRequests ==
    \A c \in Slots : \A i \in 1..Len(calls[c].sent) :
        LET k == calls[c]
            text == k.sent[i].text
        IN  /\ loads(text).ok
            /\ k.entry = "notify" => ~HasId(text)
            /\ k.entry \in {"request", "attr"} =>
                /\ HasId(text)
                /\ MemberOf(loads(text).v, "id") = JNum(k.id)

C5_Witness ==
    \E c \in Slots :
        /\ calls[c].entry = "notify" /\ calls[c].args # <<>>
        /\ calls[c].sent # <<>>

C7_NotifyHasNoData ==
    \A c \in Slots :
        calls[c].entry = "notify" /\ calls[c].pc = "returned" =>
            ResponseOf(World, c).data \in {Unset, NoPayload}

\* C8: a dynamic invocation client.<name>(args) and client.request("<name>", args),
\* made from the same state and answered alike, hand send_message the same text with
\* the same id and end alike, with the same Response or the same error.  twin is the
\* run in which the invocation is written as request(...).
C8_DynamicIsRequest ==
    /\ twin.id_generator = id_generator /\ twin.supplied = supplied
    /\ twin.shared = shared /\ twin.ids_sent = ids_sent
    /\ \A c \in Slots :
        LET k == calls[c]
            t == twin.calls[c]
        IN  /\ k.entry # "attr" => t = k
            /\ k.entry = "attr" =>
                /\ t.entry = "request" /\ t.method = k.method
                /\ t.args = k.args /\ t.kwargs = k.kwargs
                /\ t.sent = k.sent /\ t.id = k.id
                /\ t.pc = k.pc /\ t.err = k.err
                /\ ResponseOf(twin, c) = ResponseOf(World, c)
                /\ [t EXCEPT !.entry = "attr"] = k

C8_Witness ==
    \E c \in Slots :
        /\ calls[c].entry = "attr" /\ calls[c].pc = "returned"
        /\ calls[c].id = 2 /\ calls[c].args # <<>>

\* C9: looking up an attribute the class does not define can always be done, yields a
\* callable and changes nothing: no send_message, no log record, no id drawn.  A call
\* starts only when a callable is invoked.
C9_LookupStep ==
    /\ (handler = NoHandler /\ \A c \in Slots : calls[c].pc = "idle") =>
           \A name \in AttrNames \ DefinedMembers : ENABLED Access(name)
    /\ (handler = NoHandler /\ handler' # NoHandler) =>
        /\ UNCHANGED <<calls, id_generator, supplied, shared, ids_sent>>
        /\ handler'.kind \in {"attr_handler", "member"}
        /\ (handler'.kind = "attr_handler") = (handler'.name \notin DefinedMembers)
    /\ (\E c \in Slots : calls[c].pc = "idle" /\ calls'[c].pc # "idle") =>
           handler # NoHandler /\ handler' = NoHandler

C9_LookupHasNoEffect == [][C9_LookupStep]_vars

C9_Witness ==
    /\ handler.kind = "attr_handler"
    /\ id_generator > 0

\* C10: with one call at a time, the requests that take their id from the client's
\* default generator carry the ids 1, 2, 3, ... in the order they are sent, none twice,
\* also after calls that failed in the transport, in validation or in parsing.
C10_IdsCountUp ==
    /\ \A i \in 1..Len(ids_sent) : ids_sent[i] = i
    /\ \A c \in Slots :
        LET k == calls[c]
        IN  (k.entry \in {"request", "attr"} /\ k.rid = 0 /\ k.gen = "default"
             /\ k.sent # <<>>) =>
                /\ k.id = Len(ids_sent)
                /\ MemberOf(loads(k.sent[1].text).v, "id") = JNum(k.id)

C10_Witness ==
    /\ Len(ids_sent) = 3
    /\ \E c \in Slots : calls[c].pc = "raised" /\ calls[c].id = 3

\* C11: when send and request calls on one client are interleaved over a reentrant
\* transport, the Response a call holds is the one its own send_message invocation
\* returned, text and handle as returned; its data is unset until the call's own
\* attach step and from then on is the payload decoded from that Response's own
\* text, so no other call has written into it; and the call returns that Response.
C11_EachCallOwnsItsResponse ==
    \A c \in Slots :
        LET k == calls[c]
            r == ResponseOf(World, c)
            decoded == parse(k.replied.text, config.validate_against_schema).data
        IN  /\ k.resp # "none" =>
                /\ k.resp = "own"
                /\ r = [k.replied EXCEPT
                           !.data = IF InTrace(k, "attach") THEN decoded ELSE Unset]
            /\ k.pc = "returned" => k.resp = "own" /\ InTrace(k, "attach")

C11_Witness ==
    \E c, d \in Slots :
        /\ calls[c].pc = "attach" /\ calls[d].pc = "returned" /\ c < d
        /\ calls[c].entry = "send" /\ calls[d].entry = "request"
        /\ calls[c].replied.text = SuccessText /\ calls[d].replied.text = EmptyText

\* the results and ids of the success payloads the transport answers with
Results == {JStr("meow"), JNum(27)}
ReplyIds == {JNum(1), JNum(2)}

C13_BothKindsOfParamsFail ==
    \A c \in Slots :
        LET k == calls[c]
        IN  (/\ k.entry \in {"notify", "request", "attr"}
             /\ k.pc # "idle"
             /\ k.args # <<>> /\ k.kwargs # <<>>) =>
                /\ k.pc = "raised" /\ k.err = "ArgumentError"
                /\ k.trace = <<>>
                /\ k.sent = <<>>
                /\ k.request_log = <<>> /\ k.response_log = <<>>
                /\ k.resp = "none"

C13_Witness ==
    \E c \in Slots :
        /\ calls[c].entry = "notify" /\ calls[c].err = "ArgumentError"
        /\ calls[c].args # <<>> /\ calls[c].kwargs # <<>>

\* C14 as claimed: the core writes data on a Response only when that data was unset,
\* also on a Response object the transport has handed back before.
C14_WrittenOnlyWhenUnset ==
    \A c \in Slots : InTrace(calls[c], "attach") => calls[c].data0 = Unset

\* a step that leaves the Response object the transport keeps as it was, or is the
\* transport handing it to call c with a new text, or is call c's attach step
\* writing the payload it decoded as the object's data
C14_SharedStep ==
    \/ shared' = shared
    \/ \E c \in Slots :
        \/ /\ calls[c].pc = "send_message" /\ calls'[c].resp = "shared"
           /\ shared' = [shared EXCEPT !.text = calls'[c].replied.text]
        \/ /\ calls[c].pc = "attach" /\ calls[c].resp = "shared"
           /\ shared' = [shared EXCEPT !.data = calls[c].parsed]

\* a step that changes the Response object made for call c is that call's attach
\* step, which finds its data unset and writes the decoded payload, nothing else
C14_OwnStep(c) ==
    (/\ calls[c].resp = "own" /\ calls'[c].resp = "own"
     /\ calls'[c].own # calls[c].own) =>
        /\ calls[c].pc = "attach"
        /\ calls[c].own.data = Unset
        /\ calls'[c].own = [calls[c].own EXCEPT !.data = calls[c].parsed]

\* C14 amended: the core never changes a Response's text or raw_response, and a call
\* writes data once, at its attach step. On a Response object made for that call
\* this is a single write from unset to the decoded payload. On a Response object
\* the transport hands back again the write is not withheld: the call's attach step
\* replaces whatever data the object has by the payload decoded from its present text.
C14_DataWrittenAtAttach ==
    [][/\ C14_SharedStep
       /\ \A c \in Slots : C14_OwnStep(c)
       /\ \A c \in Slots : IsPrefix(calls'[c].trace, SendOrder)]_vars

C14_Witness ==
    \E c \in Slots :
        /\ calls[c].resp = "shared" /\ InTrace(calls[c], "attach")
        /\ calls[c].data0 = SuccessPayload
        /\ shared.data = NoPayload /\ shared.text = EmptyText

\* the requests in progress or finished that drew their id from the client's generator
DrewId(c) ==
    /\ calls[c].entry \in {"request", "attr"} /\ calls[c].rid = 0
    /\ calls[c].gen = "default" /\ calls[c].id # 0

\* C15: in every interleaving of request calls drawing from one generator whose next
\* is atomic, no two requests have the same id: not two calls in progress or
\* finished, and not two messages handed to send_message; and the generator stands
\* at the number of ids drawn, the client having neither set it back nor skipped.
C15_InterleavedIdsDistinct ==
    /\ \A c, d \in Slots : (c # d /\ DrewId(c) /\ DrewId(d)) => calls[c].id # calls[d].id
    /\ \A i, j \in 1..Len(ids_sent) : i # j => ids_sent[i] # ids_sent[j]
    /\ \A c \in Slots : \A i \in 1..Len(calls[c].sent) :
           DrewId(c) => MemberOf(loads(calls[c].sent[i].text).v, "id") = JNum(calls[c].id)
    /\ id_generator = Cardinality({c \in Slots : DrewId(c)})

\* two requests in progress at once, the one that drew its id later sent first
C15_Witness ==
    /\ ids_sent = <<2, 1>>
    /\ \A c \in {1, 2} : calls[c].entry = "request" /\ calls[c].pc = "log_response"

\* a step in which a request (or a dynamic method) given no explicit id enters slot c
\* and gets as far as send
StartsRequest(c) ==
    /\ calls[c].pc \in Terminal /\ calls'[c].pc = "log_request"
    /\ calls'[c].entry \in {"request", "attr"} /\ calls'[c].rid = 0

\* the message call c has handed to send_message has the id the call drew
C16_SentWithIdDrawn(c) ==
    (calls'[c].entry \in {"request", "attr"} /\ calls'[c].rid = 0) =>
        \A i \in 1..Len(calls'[c].sent) :
            MemberOf(loads(calls'[c].sent[i].text).v, "id") = JNum(calls'[c].id)

C16_Step(c) ==
    StartsRequest(c) =>
        /\ MemberOf(calls'[c].request.v, "id") = JNum(calls'[c].id)
        /\ IF calls'[c].gen = "supplied"
           THEN /\ calls'[c].id = NextId(World, "supplied")
                /\ supplied' = supplied + 1
                /\ id_generator' = id_generator
           ELSE /\ calls'[c].id = NextId(World, "default")
                /\ id_generator' = id_generator + 1
                /\ supplied' = supplied

\* C16: a request given a generator of its own and no explicit id has as its id the
\* next value of that generator, which moves on by one while the client's default
\* generator stays where it was; a request given neither has the next value of the
\* client's default generator, and the generator given to other calls stays.
C16_IdFromGeneratorGiven ==
    [][\A c \in Slots : C16_Step(c) /\ C16_SentWithIdDrawn(c)]_vars

C16_Witness ==
    \E c \in Slots :
        /\ calls[c].entry = "request" /\ calls[c].gen = "supplied" /\ calls[c].rid = 0
        /\ calls[c].id = 102 /\ id_generator = 1 /\ supplied = 2
        /\ calls[c].sent # <<>>
        /\ MemberOf(loads(calls[c].sent[1].text).v, "id") = JNum(102)

\* C17: the text send_message receives is the very text send was given when it was
\* given text, and the JSON serialization of what it was given otherwise (a dict, a
\* list, a Request, a Notification); and what is logged on the request channel is
\* that same text, logged once, before send_message has it.
C17_TextSentAsGiven ==
    \A c \in Slots :
        LET k == calls[c]
            text == IF k.request.isStr THEN k.request.text ELSE dumps(k.request.v)
        IN  /\ k.request_log # <<>> =>
                k.request_log = <<[text |-> text, trim |-> config.trim_log_values]>>
            /\ \A i \in 1..Len(k.sent) :
                /\ k.sent[i].text = text
                /\ k.request_log # <<>> /\ k.request_log[1].text = k.sent[i].text

C17_Witness ==
    \E c \in Slots :
        /\ calls[c].entry = "send" /\ calls[c].request.isStr
        /\ calls[c].sent # <<>> /\ calls[c].sent[1].text = calls[c].request.text
        /\ calls[c].request.text # <<>>

\* the requests built from the client's generator and not yet handed to send_message
BuiltNotSent ==
    {c \in Slots : /\ calls[c].entry \in {"request", "attr"} /\ calls[c].rid = 0
                   /\ calls[c].gen = "default" /\ calls[c].id # 0
                   /\ calls[c].sent = <<>> /\ calls[c].pc \notin Terminal}

\* C18: a step moves a generator only if it builds a Request with no explicit id,
\* and then by exactly one, on one generator; every other step (notify, send given
\* text or a payload, a Request with an explicit id, a lookup, logging, send_message,
\* validation, parsing, attaching, returning) leaves both generators where they
\* were. So the client's generator stands at the number of Requests built from it:
\* those handed to send_message and those built and about to be.
C18_OnlyRequestsAdvance ==
    [][/\ id_generator' >= id_generator /\ supplied' >= supplied
       /\ (id_generator' - id_generator) + (supplied' - supplied)
             = IF \E c \in Slots : StartsRequest(c) THEN 1 ELSE 0
       /\ id_generator = Len(ids_sent) + Cardinality(BuiltNotSent)]_vars

C18_Witness ==
    /\ id_generator = 2 /\ supplied = 1 /\ Len(ids_sent) = 2
    /\ \E c \in Slots : calls[c].entry = "notify" /\ calls[c].pc = "returned"

====
